---- MODULE Spec2Model ----
(***************************************************************************)
(* Model of pagina.py, the Streamlit chatbot of the Instituto 13 de Julio: *)
(* knowledge loading, flattening, semantic retrieval, prompt assembly and  *)
(* the streamed chat turn.                                                 *)
(*                                                                         *)
(* Strings are sequences of tokens, so that concatenation, strip() and     *)
(* line structure are computed and not assumed.  Accented letters of the   *)
(* source literals are written without the accent.  Similarities are       *)
(* cosine similarities scaled by 10 (0.4 is 4).                            *)
(***************************************************************************)
EXTENDS Integers, Sequences, FiniteSets, TLC

VARIABLES
    archivo,              \* environment: what open()/json.load() of conocimiento.json gives
    modelo_disponible,    \* environment: SentenceTransformer(...) can be constructed
    api_key_ok,           \* environment: st.secrets["GROQ_API_KEY"] exists
    app_ready,            \* st.session_state.app_ready
    base_de_conocimiento, \* st.session_state.base_de_conocimiento
    documentos_planos,    \* st.session_state.documentos_planos
    modelo_embeddings,    \* st.session_state.modelo_embeddings
    indice_embeddings,    \* st.session_state.indice_embeddings
    mensajes,             \* st.session_state.mensajes (<<>> while the key is absent)
    contexto_rag,         \* contexto_rag of the last chat turn that computed it
    historial_para_api,   \* historial_para_api of the last chat turn that built it
    ultima_ejecucion,     \* how the last script run (or pure call) ended
    errores,              \* the st.error messages shown by the last script run
    cargas,               \* history: completed runs of the loading branch
    traza,                \* history: what the last chat turn went through
    similitudes,          \* retrieval: query |-> cosine similarities per document
    top_k,                \* retrieval: parameter top_k
    umbral,               \* retrieval: parameter umbral
    orden,                \* retrieval: query |-> what np.argsort returned
    resultado,            \* retrieval: query |-> returned context string
    aceptados             \* retrieval history: query |-> accepted indices, in order

vars == <<archivo, modelo_disponible, api_key_ok, app_ready, base_de_conocimiento,
          documentos_planos, modelo_embeddings, indice_embeddings, mensajes,
          contexto_rag, historial_para_api, ultima_ejecucion, errores, cargas,
          traza, similitudes, top_k, umbral, orden, resultado, aceptados>>

entorno == <<archivo, modelo_disponible, api_key_ok>>
recursos == <<base_de_conocimiento, documentos_planos, modelo_embeddings,
              indice_embeddings>>
busqueda == <<similitudes, top_k, umbral, orden, resultado, aceptados>>

(***************************************************************************)
(* Bounds of the model.                                                    *)
(***************************************************************************)
MaxDocs == 3
MaxEvals == 2
MaxTurnos == 6
MaxTurnosStream == 2
MaxChunks == 2

(***************************************************************************)
(* Program constants.                                                      *)
(***************************************************************************)
TOP_K_DEFAULT == 3
UMBRAL_DEFAULT == 4
HISTORIAL_MAX == 10

\* Optional values: None is the empty tuple, a value x is the 1-tuple <<x>>.
None == <<>>
Algo(x) == <<x>>
Valor(o) == o[1]

(***************************************************************************)
(* Strings as token sequences.                                             *)
(***************************************************************************)
NL == "\n"
Espacios == {" ", NL}

Max(a, b) == IF a >= b THEN a ELSE b
Min(a, b) == IF a <= b THEN a ELSE b

Reverse(s) == [i \in 1..Len(s) |-> s[Len(s) + 1 - i]]

RECURSIVE Concat(_)
Concat(ss) == IF ss = <<>> THEN <<>> ELSE Head(ss) \o Concat(Tail(ss))

\* the i-th to j-th tokens of s
Trozo(s, i, j) == IF i > j THEN <<>> ELSE SubSeq(s, i, j)

\* sub occurs in s as a contiguous run of tokens
Contiene(s, sub) ==
    \E i \in 1..(Len(s) - Len(sub) + 1) : Trozo(s, i, i + Len(sub) - 1) = sub

\* str.split("\n") without the empty last piece of a text that ends in "\n"
RECURSIVE Lineas(_)
Lineas(s) ==
    IF s = <<>> THEN <<>>
    ELSE LET cortes == {i \in 1..Len(s) : s[i] = NL}
         IN IF cortes = {} THEN <<s>>
            ELSE LET c == CHOOSE i \in cortes : \A j \in cortes : i <= j
                 IN <<Trozo(s, 1, c - 1)>> \o Lineas(Trozo(s, c + 1, Len(s)))

(***************************************************************************)
(* buscar_contexto_semantico                                               *)
(***************************************************************************)
MSG_NO_LISTA == <<"La base de conocimientos no esta lista.">>
MSG_SIN_INFO == <<"No se encontro informacion relevante para tu consulta.">>

Permutaciones(n) ==
    {p \in [1..n -> 1..n] : \A i, j \in 1..n : i # j => p[i] # p[j]}

\* np.argsort(similitudes): an index order that sorts ascending.  The default
\* kind is not a stable sort, so every order of equal scores is an outcome.
argsort_mut(sims) ==
    {p \in Permutaciones(Len(sims)) :
        \A a, b \in 1..Len(sims) : a < b => sims[p[a]] >= sims[p[b]]}
argsort(sims) ==
    {p \in Permutaciones(Len(sims)) :
        \A a, b \in 1..Len(sims) : a < b => sims[p[a]] <= sims[p[b]]}

\* np.argsort(similitudes)[::-1]
indices_similares_mut(ord) == ord
indices_similares(ord) == Reverse(ord)

\* the condition of the loop body for one index
supera_umbral(sim, u) == sim > u

hay_cupo_mut(textos, k) == TRUE
hay_cupo(textos, k) == Cardinality(textos) < k

ya_anadido(texto, textos) == texto \in textos

vinieta(texto) == <<"- ">> \o texto \o <<NL>>

\* the for loop over indices_similares, from position k on
RECURSIVE recorrer(_, _, _, _, _, _, _)
recorrer(indices, k, sims, documentos, tk, u, acc) ==
    IF k > Len(indices) THEN acc
    ELSE LET idx == indices[k]
             texto == documentos[idx]
         IN IF /\ supera_umbral(sims[idx], u)
               /\ hay_cupo(acc.textos, tk)
               /\ ~ya_anadido(texto, acc.textos)
            THEN recorrer(indices, k + 1, sims, documentos, tk, u,
                          [contexto |-> acc.contexto \o vinieta(texto),
                           textos |-> acc.textos \cup {texto},
                           idxs |-> Append(acc.idxs, idx)])
            ELSE recorrer(indices, k + 1, sims, documentos, tk, u, acc)

bucle(ord, sims, documentos, tk, u) ==
    recorrer(indices_similares(ord), 1, sims, documentos, tk, u,
             [contexto |-> <<>>, textos |-> {}, idxs |-> <<>>])

\* the value returned once the query is embedded and ranked
contexto_o_mensaje_mut(contexto, documentos) ==
    IF contexto = <<>> THEN vinieta(documentos[1]) ELSE contexto
contexto_o_mensaje(contexto, documentos) ==
    IF contexto = <<>> THEN MSG_SIN_INFO ELSE contexto

buscar_contexto_semantico(ord, sims, documentos, tk, u) ==
    contexto_o_mensaje(bucle(ord, sims, documentos, tk, u).contexto, documentos)

no_lista(modelo, embeddings_corpus) ==
    embeddings_corpus = None \/ modelo = None

(***************************************************************************)
(* Retrieval as a pure function: inputs drawn in Init, one call per query. *)
(***************************************************************************)
Texto(i) == <<"t", ToString(i)>>
Textos == {Texto(1), Texto(2), Texto(3)}
\* documents all different, or the second a copy of the first
ParDocumentos ==
    {[i \in 1..MaxDocs |-> Texto(i)],
     [i \in 1..MaxDocs |-> IF i = 2 THEN Texto(1) ELSE Texto(i)]}
SimValues == {3, 4, 5, 6}
ParSimValues == {4, 5, 6}

SinTraza ==
    [hubo |-> FALSE, prompt |-> <<>>, falla_encode |-> FALSE, chunks |-> <<>>,
     falla_stream |-> FALSE]

\* the parts of the state a pure call neither reads nor writes
ChatSinUso ==
    /\ archivo = [estado |-> "no_leido", contenido |-> <<>>]
    /\ modelo_disponible = TRUE
    /\ api_key_ok = TRUE
    /\ app_ready = TRUE
    /\ mensajes = <<>>
    /\ contexto_rag = <<>>
    /\ historial_para_api = <<>>
    /\ errores = {}
    /\ cargas = 0
    /\ traza = SinTraza

SesionSinUso ==
    /\ ChatSinUso
    /\ base_de_conocimiento = None
    /\ modelo_embeddings = Algo("all-MiniLM-L6-v2")

SesionSinUso2 ==
    /\ ChatSinUso
    /\ modelo_embeddings = None
    /\ indice_embeddings = None
    /\ similitudes = <<>>
    /\ top_k = TOP_K_DEFAULT
    /\ umbral = UMBRAL_DEFAULT
    /\ orden = <<>>
    /\ resultado = <<>>
    /\ aceptados = <<>>

\* _modelo.encode(documentos): one vector per document, index-aligned
encode_corpus(documentos) == [i \in 1..Len(documentos) |-> i]

InitBusqueda ==
    /\ SesionSinUso
    /\ \E n \in 1..MaxDocs :
          /\ documentos_planos \in [1..n -> Textos]
          /\ similitudes \in [{"q1"} -> [1..n -> SimValues]]
    /\ indice_embeddings = Algo(encode_corpus(documentos_planos))
    /\ top_k \in 0..TOP_K_DEFAULT
    /\ umbral = UMBRAL_DEFAULT
    /\ orden = [q \in DOMAIN similitudes |-> <<>>]
    /\ resultado = [q \in DOMAIN similitudes |-> <<>>]
    /\ aceptados = [q \in DOMAIN similitudes |-> <<>>]
    /\ ultima_ejecucion = "ninguna"

InitPar ==
    /\ SesionSinUso
    /\ documentos_planos \in ParDocumentos
    /\ similitudes \in [{"q1", "q2"} -> [1..MaxDocs -> ParSimValues]]
    /\ indice_embeddings = Algo(encode_corpus(documentos_planos))
    /\ top_k \in {1, TOP_K_DEFAULT}
    /\ umbral = UMBRAL_DEFAULT
    /\ orden = [q \in DOMAIN similitudes |-> <<>>]
    /\ resultado = [q \in DOMAIN similitudes |-> <<>>]
    /\ aceptados = [q \in DOMAIN similitudes |-> <<>>]
    /\ ultima_ejecucion = "ninguna"

Buscar(q) ==
    /\ resultado[q] = <<>>
    /\ ~no_lista(modelo_embeddings, indice_embeddings)
    /\ \E ord \in argsort(similitudes[q]) :
          /\ orden' = [orden EXCEPT ![q] = ord]
          /\ resultado' = [resultado EXCEPT ![q] =
                buscar_contexto_semantico(ord, similitudes[q], documentos_planos,
                                          top_k, umbral)]
          /\ aceptados' = [aceptados EXCEPT ![q] =
                bucle(ord, similitudes[q], documentos_planos, top_k, umbral).idxs]
    /\ ultima_ejecucion' = "busqueda"
    /\ UNCHANGED <<entorno, app_ready, recursos, mensajes, contexto_rag,
                   historial_para_api, errores, cargas, traza, similitudes,
                   top_k, umbral>>

NextBusqueda == \E q \in DOMAIN similitudes : Buscar(q)

SpecBusqueda == InitBusqueda /\ [][NextBusqueda]_vars

\* two calls on the same corpus, the second query after the first
BuscarPar(q) ==
    /\ resultado[q] = <<>>
    /\ ~no_lista(modelo_embeddings, indice_embeddings)
    /\ \E ord \in argsort(similitudes[q]) :
          resultado' = [resultado EXCEPT ![q] =
                buscar_contexto_semantico(ord, similitudes[q], documentos_planos,
                                          top_k, umbral)]
    /\ ultima_ejecucion' = "busqueda"
    /\ UNCHANGED <<entorno, app_ready, recursos, mensajes, contexto_rag,
                   historial_para_api, errores, cargas, traza, similitudes,
                   top_k, umbral, orden, aceptados>>

BuscarPrimera == BuscarPar("q1")
BuscarSegunda == resultado["q1"] # <<>> /\ BuscarPar("q2")
NextPar == BuscarPrimera \/ BuscarSegunda

SpecPar == InitPar /\ [][NextPar]_vars

(***************************************************************************)
(* JSON values of conocimiento.json.  A dict is the sequence of its         *)
(* <<key, value>> pairs in insertion order, which is the order .items()    *)
(* iterates in.                                                            *)
(***************************************************************************)
Dict(pares) == [t |-> "dict", v |-> pares]
Str(tokens) == [t |-> "str", v |-> tokens]
List(items) == [t |-> "list", v |-> items]

\* isinstance(x, dict)
EsDict(x) == x.t = "dict"
\* k in d
Tiene(d, k) == \E i \in DOMAIN d.v : d.v[i][1] = k
\* d[k]
Item(d, k) == d.v[CHOOSE i \in DOMAIN d.v : d.v[i][1] = k][2]
\* d.get(k, defecto)
Get(d, k, defecto) == IF Tiene(d, k) THEN Item(d, k) ELSE defecto
\* the truth value of d.get(k) for a list or string value
GetVerdadero(d, k) == Tiene(d, k) /\ Item(d, k).v # <<>>

\* s.replace('_', ' ') on the keys the documents use
sin_guion(clave) ==
    CASE clave = "general_info" -> "general info"
      [] clave = "lengua_y_literatura" -> "lengua y literatura"
      [] clave = "1er_anio" -> "1er anio"
      [] clave = "2do_anio" -> "2do anio"
      [] OTHER -> clave

\* s.title() on the same keys
title(s) ==
    CASE s = "general info" -> "General Info"
      [] s = "horarios" -> "Horarios"
      [] s = "matematica" -> "Matematica"
      [] s = "lengua y literatura" -> "Lengua Y Literatura"
      [] OTHER -> s

\* s.strip(): leading and trailing whitespace removed
RECURSIVE strip(_)
strip(s) ==
    IF s = <<>> THEN s
    ELSE IF Head(s) \in Espacios THEN strip(Tail(s))
    ELSE IF s[Len(s)] \in Espacios THEN strip(Trozo(s, 1, Len(s) - 1))
    ELSE s

(***************************************************************************)
(* aplanar_conocimiento                                                    *)
(***************************************************************************)
\* one document of a top-level topic, or nothing
documento_de_tema(topic, data) ==
    IF topic = "material_academico" THEN <<>>
    ELSE IF EsDict(data) /\ Tiene(data, "content")
         THEN <<(<<"Informacion sobre", " ", title(sin_guion(topic)), ":", " ">>
                 \o Item(data, "content").v)>>
         ELSE <<>>

\* subject_data.get('profesor', 'No asignado')
profesor_mut(subject_data) == Get(subject_data, "profesor", Str(<<>>)).v
profesor(subject_data) == Get(subject_data, "profesor", Str(<<"No asignado">>)).v

\* the piece one evaluation adds to info
texto_evaluacion(eval_item) ==
    <<"Fecha:", " ">> \o Get(eval_item, "fecha", Str(<<"N/A">>)).v
    \o <<",", " ", "Temas:", " ">> \o Get(eval_item, "temas", Str(<<"N/A">>)).v
    \o <<".", " ">>

texto_evaluaciones(subject_data) ==
    IF GetVerdadero(subject_data, "evaluaciones")
    THEN <<"Proximas Evaluaciones:", " ">>
         \o Concat([i \in DOMAIN Item(subject_data, "evaluaciones").v |->
                      texto_evaluacion(Item(subject_data, "evaluaciones").v[i])])
    ELSE <<>>

encabezado_materia(year, subject_name) ==
    <<"Materia:", " ", title(sin_guion(subject_name)), " ", "de", " ",
      sin_guion(year), ".", " ">>

\* one document of a subject, or nothing
documento_de_materia(year, subject_name, subject_data) ==
    IF EsDict(subject_data)
    THEN <<strip(encabezado_materia(year, subject_name)
                 \o Get(subject_data, "content", Str(<<>>)).v \o <<" ">>
                 \o <<"Profesor/a:", " ">> \o profesor(subject_data) \o <<".", " ">>
                 \o texto_evaluaciones(subject_data))>>
    ELSE <<>>

documentos_de_anio(year, subjects) ==
    Concat([j \in DOMAIN subjects.v |->
              documento_de_materia(year, subjects.v[j][1], subjects.v[j][2])])

documentos_de_material(kb) ==
    IF Tiene(kb, "material_academico")
    THEN Concat([i \in DOMAIN Item(kb, "material_academico").v |->
                   documentos_de_anio(Item(kb, "material_academico").v[i][1],
                                      Item(kb, "material_academico").v[i][2])])
    ELSE <<>>

no_vacios(documentos) ==
    Concat([i \in DOMAIN documentos |->
              IF documentos[i] # <<>> THEN <<documentos[i]>> ELSE <<>>])

aplanar_conocimiento(base) ==
    IF base = None THEN <<>>
    ELSE LET kb == Valor(base)
         IN no_vacios(Concat([i \in DOMAIN kb.v |->
                                documento_de_tema(kb.v[i][1], kb.v[i][2])])
                      \o documentos_de_material(kb))

(***************************************************************************)
(* Flattening as a pure function: the knowledge base drawn in Init.        *)
(***************************************************************************)
SeqsHasta(S, n) == UNION {[1..k -> S] : k \in 0..n}

\* a dict entry that is absent, or present with one of the values
Opcional(clave, valores) == {<<>>} \cup {<<(<<clave, v>>)>> : v \in valores}

EvalItems ==
    {Dict(<<(<<"fecha", Str(<<"10/06">>)>>), (<<"temas", Str(<<"Algebra">>)>>)>>),
     Dict(<<(<<"fecha", Str(<<"24/06">>)>>), (<<"temas", Str(<<"Geometria">>)>>)>>),
     Dict(<<(<<"fecha", Str(<<"01/07">>)>>)>>),
     Dict(<<(<<"temas", Str(<<"Funciones">>)>>)>>)}

Apunte ==
    Dict(<<(<<"nombre", Str(<<"Apunte de Algebra">>)>>),
           (<<"link", Str(<<"https://drive/algebra">>)>>)>>)

SubjectDatas ==
    {Dict(c \o p \o e \o a) :
        c \in Opcional("content", {Str(<<"Matematica I">>)}),
        p \in Opcional("profesor", {Str(<<"Juan Perez">>)}),
        e \in Opcional("evaluaciones", {List(l) : l \in SeqsHasta(EvalItems, MaxEvals)}),
        a \in Opcional("apuntes", {List(<<Apunte>>)})}
    \cup {Str(<<"pendiente">>)}

TemaHorarios ==
    <<"horarios", Dict(<<(<<"content", Str(<<"Las clases son de 8 a 13hs.">>)>>),
                         (<<"keywords", List(<<Str(<<"horario">>)>>)>>)>>)>>
TemaGeneral ==
    <<"general_info", Dict(<<(<<"content", Str(<<"Instituto 13 de Julio.">>)>>)>>)>>
TemaSinContenido ==
    <<"general_info", Dict(<<(<<"keywords", List(<<>>)>>)>>)>>
TemaNoDict == <<"horarios", Str(<<"8 a 13hs">>)>>

TemasPosibles ==
    {<<>>, <<TemaHorarios>>, <<TemaHorarios, TemaSinContenido>>,
     <<TemaNoDict, TemaGeneral>>}

SegundoAnio ==
    <<"2do_anio",
      Dict(<<(<<"matematica", Dict(<<(<<"content", Str(<<"Matematica II">>)>>)>>)>>),
             (<<"lengua_y_literatura", Str(<<"pendiente">>)>>)>>)>>

MaterialesPosibles ==
    {<<>>}
    \cup {<<(<<"material_academico",
               Dict(<<(<<"1er_anio", Dict(<<(<<"matematica", sd>>)>>)>>)>> \o resto)>>)>> :
            sd \in SubjectDatas, resto \in {<<>>, <<SegundoAnio>>}}

BasesAplanar == {Dict(t \o m) : t \in TemasPosibles, m \in MaterialesPosibles}

InitAplanar ==
    /\ SesionSinUso2
    /\ base_de_conocimiento \in {None} \cup {Algo(kb) : kb \in BasesAplanar}
    /\ documentos_planos = <<>>
    /\ ultima_ejecucion = "ninguna"

Aplanar ==
    /\ ultima_ejecucion = "ninguna"
    /\ documentos_planos' = aplanar_conocimiento(base_de_conocimiento)
    /\ ultima_ejecucion' = "aplanar"
    /\ UNCHANGED <<entorno, app_ready, base_de_conocimiento, modelo_embeddings,
                   indice_embeddings, mensajes, contexto_rag, historial_para_api,
                   errores, cargas, traza, busqueda>>

NextAplanar == Aplanar

SpecAplanar == InitAplanar /\ [][NextAplanar]_vars

(***************************************************************************)
(* Loading: cargar_base_de_conocimiento, cargar_modelo_embeddings,         *)
(* crear_indice_semantico.                                                 *)
(***************************************************************************)
ERROR_NO_ENCONTRADO == "Error Critico: No se encontro el archivo 'conocimiento.json'."
ERROR_JSON == "Error Critico: El archivo 'conocimiento.json' no tiene un formato JSON valido."
ERROR_MODELO == "Error al descargar el modelo de embeddings"
ERROR_MOTOR == "Hubo un problema al inicializar el motor de conocimiento. Por favor, recarga la pagina."
ERROR_API_KEY == "API Key de Groq no configurada."
ERROR_GROQ == "Ocurrio un error al contactar la API de Groq"

cargar_base_de_conocimiento(arch) ==
    IF arch.estado = "ok" THEN arch.contenido ELSE None

errores_de_carga(arch) ==
    CASE arch.estado = "no_encontrado" -> {ERROR_NO_ENCONTRADO}
      [] arch.estado = "json_invalido" -> {ERROR_JSON}
      [] OTHER -> {}

cargar_modelo_embeddings(disponible) ==
    IF disponible THEN Algo("all-MiniLM-L6-v2") ELSE None

errores_de_modelo(disponible) == IF disponible THEN {} ELSE {ERROR_MODELO}

crear_indice_semantico(documentos, modelo) ==
    IF documentos = <<>> \/ modelo = None THEN None
    ELSE Algo(encode_corpus(documentos))

(***************************************************************************)
(* generar_respuesta_stream and st.write_stream                            *)
(***************************************************************************)
\* chunk.choices[0].delta.content or ""
contenido_o_vacio(contenido) == IF contenido = None THEN <<>> ELSE Valor(contenido)

\* the fragments the generator yields: one per chunk delivered, and one more
\* empty fragment from the except branch when the stream fails
fragmentos(chunks, falla) ==
    [i \in DOMAIN chunks |-> contenido_o_vacio(chunks[i])]
    \o (IF falla THEN <<(<<>>)>> ELSE <<>>)

\* write_stream: the fragments concatenated in arrival order
write_stream(frags) == Concat(frags)

(***************************************************************************)
(* main: the script runs of one session                                    *)
(***************************************************************************)
SYSTEM_PROMPT ==
    <<NL,
      "Eres un asistente virtual experto del Instituto 13 de Julio llamado TecnoBot.", NL,
      "Responde EXCLUSIVAMENTE con la informacion proporcionada en el CONTEXTO RELEVANTE.", NL,
      "NO PUEDES usar conocimiento externo.", NL,
      "Si no se puede responder con el contexto, DEBES decir: No tengo informacion sobre ese tema.", NL,
      "No inventes nada.", NL>>
ENCABEZADO_CONTEXTO == "CONTEXTO RELEVANTE:"
SALUDO == [role |-> "assistant", content |-> <<"Hola! Soy TecnoBot. En que puedo ayudarte?">>]

\* f"{SYSTEM_PROMPT}\n\nCONTEXTO RELEVANTE:\n{contexto_rag}"
system_prompt_con_contexto(contexto) ==
    SYSTEM_PROMPT \o <<NL, NL, ENCABEZADO_CONTEXTO, NL>> \o contexto

\* [msg for msg in mensajes if msg['role'] != 'system']
mensajes_relevantes(msgs) ==
    Concat([i \in DOMAIN msgs |->
              IF msgs[i].role # "system" THEN <<msgs[i]>> ELSE <<>>])

\* msgs[-n:]
ultimos_mut(msgs, n) == Trozo(msgs, 1, Min(n, Len(msgs)))
ultimos(msgs, n) == Trozo(msgs, Max(1, Len(msgs) - n + 1), Len(msgs))

construir_historial(contexto, msgs) ==
    <<[role |-> "system", content |-> system_prompt_con_contexto(contexto)]>>
    \o ultimos(mensajes_relevantes(msgs), HISTORIAL_MAX)

\* if not st.session_state.app_ready
debe_cargar_mut(listo) == TRUE
debe_cargar(listo) == ~listo

\* if indice_embeddings is None
motor_no_listo_mut(indice) == FALSE
motor_no_listo(indice) == indice = None

\* the transcript once line 280 has run
mensajes_iniciados(msgs) == IF msgs = <<>> THEN <<SALUDO>> ELSE msgs

Turnos == Cardinality({i \in DOMAIN mensajes : mensajes[i].role = "user"})

\* the run of the loading branch: lines 238-252
CargaInicial ==
    /\ debe_cargar(app_ready)
    /\ LET base == cargar_base_de_conocimiento(archivo)
           documentos == aplanar_conocimiento(base)
           modelo == cargar_modelo_embeddings(modelo_disponible)
       IN /\ base_de_conocimiento' = base
          /\ documentos_planos' = documentos
          /\ modelo_embeddings' = modelo
          /\ errores' = errores_de_carga(archivo) \cup errores_de_modelo(modelo_disponible)
          /\ \/ \* _modelo.encode(documentos) raises: the run ends at line 247
                /\ documentos # <<>> /\ modelo # None
                /\ ~app_ready
                /\ ultima_ejecucion' = "excepcion_carga"
                /\ UNCHANGED <<indice_embeddings, app_ready, cargas>>
             \/ /\ indice_embeddings' = crear_indice_semantico(documentos, modelo)
                /\ app_ready' = TRUE
                /\ cargas' = cargas + 1
                /\ ultima_ejecucion' = "carga"
    /\ UNCHANGED <<entorno, mensajes, contexto_rag, historial_para_api, traza, busqueda>>

\* a run of the main branch that st.stop() ends: lines 261-263 and 271-275
EjecucionDetenida ==
    /\ ~debe_cargar(app_ready)
    /\ \/ /\ motor_no_listo(indice_embeddings)
          /\ errores' = {ERROR_MOTOR}
       \/ /\ ~motor_no_listo(indice_embeddings)
          /\ ~api_key_ok
          /\ errores' = {ERROR_API_KEY}
    /\ ultima_ejecucion' = "detenida"
    /\ contexto_rag' = <<>>
    /\ historial_para_api' = <<>>
    /\ traza' = SinTraza
    /\ UNCHANGED <<entorno, app_ready, recursos, mensajes, cargas, busqueda>>

\* a run of the main branch with no chat input: lines 256-291, 315
EjecucionSinEntrada ==
    /\ ~debe_cargar(app_ready)
    /\ ~motor_no_listo(indice_embeddings)
    /\ api_key_ok
    /\ mensajes' = mensajes_iniciados(mensajes)
    /\ errores' = {}
    /\ ultima_ejecucion' = "render"
    /\ contexto_rag' = <<>>
    /\ historial_para_api' = <<>>
    /\ traza' = SinTraza
    /\ UNCHANGED <<entorno, app_ready, recursos, cargas, busqueda>>

\* the similarities the embedding model gives a query of the session
SimsSesion(n) ==
    {[i \in 1..n |-> 3],
     [i \in 1..n |-> IF i = 1 THEN 5 ELSE IF i = 2 THEN 6 ELSE 3]}

\* a run of the main branch with a submitted prompt: lines 256-313.  The
\* chat input is on the page once a main run has drawn it.
TurnoDeChat(prompt, chunks, falla_stream) ==
    /\ ~debe_cargar(app_ready)
    /\ ~motor_no_listo(indice_embeddings)
    /\ api_key_ok
    /\ ultima_ejecucion \in {"render", "turno_abortado"}
    /\ LET con_usuario == Append(mensajes_iniciados(mensajes),
                                 [role |-> "user", content |-> <<prompt>>])
           responder(contexto) ==
               /\ contexto_rag' = contexto
               /\ historial_para_api' = construir_historial(contexto, con_usuario)
               /\ mensajes' = Append(con_usuario,
                     [role |-> "assistant",
                      content |-> write_stream(fragmentos(chunks, falla_stream))])
               /\ errores' = IF falla_stream THEN {ERROR_GROQ} ELSE {}
               /\ traza' = [hubo |-> TRUE, prompt |-> <<prompt>>, falla_encode |-> FALSE,
                            chunks |-> chunks, falla_stream |-> falla_stream]
               /\ ultima_ejecucion' = "turno"
       IN \/ /\ no_lista(modelo_embeddings, indice_embeddings)
             /\ responder(MSG_NO_LISTA)
          \/ \* _modelo.encode([query]) raises: the run ends at line 300
             /\ ~no_lista(modelo_embeddings, indice_embeddings)
             /\ mensajes' = con_usuario
             /\ errores' = {}
             /\ contexto_rag' = <<>>
             /\ historial_para_api' = <<>>
             /\ traza' = [hubo |-> TRUE, prompt |-> <<prompt>>, falla_encode |-> TRUE,
                          chunks |-> <<>>, falla_stream |-> FALSE]
             /\ ultima_ejecucion' = "turno_abortado"
          \/ /\ ~no_lista(modelo_embeddings, indice_embeddings)
             /\ \E sims \in SimsSesion(Len(documentos_planos)) :
                  \E ord \in argsort(sims) :
                     responder(buscar_contexto_semantico(ord, sims, documentos_planos,
                                                         TOP_K_DEFAULT, UMBRAL_DEFAULT))
    /\ UNCHANGED <<entorno, app_ready, recursos, cargas, busqueda>>

(***************************************************************************)
(* The session.                                                            *)
(***************************************************************************)
MateriaSesion ==
    <<"material_academico",
      Dict(<<(<<"1er_anio",
                Dict(<<(<<"matematica",
                          Dict(<<(<<"content", Str(<<"Matematica I">>)>>),
                                 (<<"profesor", Str(<<"Juan Perez">>)>>),
                                 (<<"evaluaciones", List(<<CHOOSE e \in EvalItems :
                                        Tiene(e, "fecha") /\ Tiene(e, "temas")>>)>>)>>)>>)>>)>>)>>)>>

BasesSesion ==
    {Dict(<<TemaHorarios, TemaGeneral, MateriaSesion>>), Dict(<<TemaSinContenido>>)}

Archivos ==
    {[estado |-> "no_encontrado", contenido |-> None],
     [estado |-> "json_invalido", contenido |-> None]}
    \cup {[estado |-> "ok", contenido |-> Algo(kb)] : kb \in BasesSesion}

Consultas == {"q1", "q2"}

\* what the model stream delivers before it ends or fails
StreamsSesion == {<<Algo(<<"a">>)>>}
Chunks == {None, Algo(<<"a">>), Algo(<<"b">>)}

Init ==
    /\ archivo \in Archivos
    /\ modelo_disponible \in BOOLEAN
    /\ api_key_ok \in BOOLEAN
    /\ app_ready = FALSE
    /\ base_de_conocimiento = None
    /\ documentos_planos = <<>>
    /\ modelo_embeddings = None
    /\ indice_embeddings = None
    /\ mensajes = <<>>
    /\ contexto_rag = <<>>
    /\ historial_para_api = <<>>
    /\ ultima_ejecucion = "ninguna"
    /\ errores = {}
    /\ cargas = 0
    /\ traza = SinTraza
    /\ similitudes = <<>>
    /\ top_k = TOP_K_DEFAULT
    /\ umbral = UMBRAL_DEFAULT
    /\ orden = <<>>
    /\ resultado = <<>>
    /\ aceptados = <<>>

Turno ==
    /\ Turnos < MaxTurnos
    /\ \E prompt \in Consultas, chunks \in StreamsSesion, falla \in BOOLEAN :
          TurnoDeChat(prompt, chunks, falla)

Next == CargaInicial \/ EjecucionDetenida \/ EjecucionSinEntrada \/ Turno

Spec == Init /\ [][Next]_vars

TurnoStream ==
    /\ Turnos < MaxTurnosStream
    /\ \E prompt \in Consultas, chunks \in SeqsHasta(Chunks, MaxChunks), falla \in BOOLEAN :
          TurnoDeChat(prompt, chunks, falla)

NextStream == CargaInicial \/ EjecucionDetenida \/ EjecucionSinEntrada \/ TurnoStream

SpecStream == Init /\ [][NextStream]_vars

(***************************************************************************)
(* Properties of buscar_contexto_semantico.                                *)
(***************************************************************************)
Buscado(q) == resultado[q] # <<>>

EsVinieta(linea) == Len(linea) >= 1 /\ linea[1] = "- "

\* the texts of the bullet lines of a result, in order
RECURSIVE TextosDeVinietas(_)
TextosDeVinietas(lineas) ==
    IF lineas = <<>> THEN <<>>
    ELSE IF EsVinieta(Head(lineas))
         THEN <<Tail(Head(lineas))>> \o TextosDeVinietas(Tail(lineas))
         ELSE TextosDeVinietas(Tail(lineas))

Vinietas(q) == TextosDeVinietas(Lineas(resultado[q]))

SobreUmbral(q) == {d \in DOMAIN documentos_planos : similitudes[q][d] > umbral}

Aceptado(q, i) == \E k \in DOMAIN aceptados[q] : aceptados[q][k] = i
Posicion(q, i) == CHOOSE k \in DOMAIN aceptados[q] : aceptados[q][k] = i

\* the text of unit i is not already the text of another accepted unit
TextoLibre(q, i) ==
    \A k \in DOMAIN aceptados[q] :
        aceptados[q][k] # i => documentos_planos[aceptados[q][k]] # documentos_planos[i]

\* C1: the result holds at most top_k bullet lines, their texts are pairwise
\* distinct, and each is the text of the unit accepted at that position, whose
\* similarity is strictly greater than the threshold.
C1_AtMostTopKDistinctAboveThreshold ==
    \A q \in DOMAIN similitudes :
        Buscado(q) =>
            LET v == Vinietas(q)
            IN /\ Len(v) <= top_k
               /\ \A i, j \in DOMAIN v : i # j => v[i] # v[j]
               /\ Len(v) = Len(aceptados[q])
               /\ \A i \in DOMAIN v :
                     /\ v[i] = documentos_planos[aceptados[q][i]]
                     /\ similitudes[q][aceptados[q][i]] > umbral
               /\ \A i \in DOMAIN v :
                     \E d \in SobreUmbral(q) : documentos_planos[d] = v[i]

\* two units with the same text are both above the threshold, more units are
\* above the threshold than top_k admits, and top_k bullets were returned
C1_Witness ==
    \E q \in DOMAIN similitudes :
        /\ Buscado(q)
        /\ top_k = 2
        /\ Len(Vinietas(q)) = top_k
        /\ Cardinality(SobreUmbral(q)) > top_k
        /\ \E i, j \in SobreUmbral(q) :
              i # j /\ documentos_planos[i] = documentos_planos[j]

\* C2: when no unit has similarity strictly greater than the threshold, the
\* result is exactly the "no relevant information" message, and no document
\* text (that of general_info or any other) is returned in its place.
C2_NoMatchGivesLiteralMessage ==
    \A q \in DOMAIN similitudes :
        (Buscado(q) /\ SobreUmbral(q) = {}) =>
            /\ resultado[q] = MSG_SIN_INFO
            /\ Vinietas(q) = <<>>
            /\ \A d \in DOMAIN documentos_planos :
                  ~Contiene(resultado[q], documentos_planos[d])

\* the best similarity equals the threshold and the message was returned
C2_Witness ==
    \E q \in DOMAIN similitudes :
        /\ Buscado(q)
        /\ \E d \in DOMAIN documentos_planos : similitudes[q][d] = umbral
        /\ \A d \in DOMAIN documentos_planos : similitudes[q][d] <= umbral
        /\ top_k > 0
        /\ resultado[q] = MSG_SIN_INFO

\* C6 as stated: of two units i < j with equal similarity, i comes first in
\* the result, and if only one is accepted it is i.
C6_TiesKeepIndexOrder ==
    \A q \in DOMAIN similitudes :
        Buscado(q) =>
            \A i, j \in DOMAIN documentos_planos :
                (/\ i < j
                 /\ similitudes[q][i] = similitudes[q][j]
                 /\ Aceptado(q, j)
                 /\ TextoLibre(q, i))
                => (Aceptado(q, i) /\ Posicion(q, i) < Posicion(q, j))

\* C6 amended: units are ranked by descending similarity: a unit with a
\* strictly greater similarity than an accepted one is accepted before it
\* (unless its text is already in the result); accepted units come in the
\* order of the reversed argsort, which fixes no index order for equal scores.
C6_DescendingSimilarity ==
    \A q \in DOMAIN similitudes :
        Buscado(q) =>
            /\ \A i, j \in DOMAIN documentos_planos :
                  (/\ similitudes[q][i] > similitudes[q][j]
                   /\ Aceptado(q, j)
                   /\ TextoLibre(q, i))
                  => (Aceptado(q, i) /\ Posicion(q, i) < Posicion(q, j))
            /\ \A a, b \in DOMAIN aceptados[q] :
                  a < b => similitudes[q][aceptados[q][a]] >= similitudes[q][aceptados[q][b]]

\* a strictly better unit leads the result and two units of equal similarity
\* follow it with the greater index first
C6_Witness ==
    \E q \in DOMAIN similitudes :
        /\ Buscado(q)
        /\ \E i, j, k \in DOMAIN documentos_planos :
              /\ i < j
              /\ similitudes[q][i] = similitudes[q][j]
              /\ similitudes[q][k] > similitudes[q][i]
              /\ Aceptado(q, i) /\ Aceptado(q, j) /\ Aceptado(q, k)
              /\ Posicion(q, k) < Posicion(q, j)
              /\ Posicion(q, j) < Posicion(q, i)

\* u is the only highest-similarity unit of q
EsUnicoMejor(q, u) ==
    \A d \in DOMAIN documentos_planos : d # u => similitudes[q][d] < similitudes[q][u]

AmbasBuscadas == Buscado("q1") /\ Buscado("q2")

\* C8 as stated: two queries with the same highest-similarity unit, above the
\* threshold for both, get identical result text.
C8_SameTopSameResult ==
    AmbasBuscadas =>
        \A u \in DOMAIN documentos_planos :
            (/\ EsUnicoMejor("q1", u) /\ EsUnicoMejor("q2", u)
             /\ similitudes["q1"][u] > umbral
             /\ similitudes["q2"][u] > umbral)
            => resultado["q1"] = resultado["q2"]

\* C8 amended: two queries with the same single highest-similarity unit, above
\* the threshold for both, get results that begin with the same bullet, the
\* text of that unit; with top_k = 1 the two results are identical.
C8_SameTopSameFirstBullet ==
    AmbasBuscadas =>
        \A u \in DOMAIN documentos_planos :
            (/\ EsUnicoMejor("q1", u) /\ EsUnicoMejor("q2", u)
             /\ similitudes["q1"][u] > umbral
             /\ similitudes["q2"][u] > umbral
             /\ top_k >= 1)
            => /\ Head(Lineas(resultado["q1"])) = <<"- ">> \o documentos_planos[u]
               /\ Head(Lineas(resultado["q2"])) = <<"- ">> \o documentos_planos[u]
               /\ top_k = 1 => resultado["q1"] = resultado["q2"]

\* the same single best unit for both queries, and results that differ after
\* the first bullet
C8_Witness ==
    /\ AmbasBuscadas
    /\ top_k = TOP_K_DEFAULT
    /\ \E u \in DOMAIN documentos_planos :
          /\ EsUnicoMejor("q1", u) /\ EsUnicoMejor("q2", u)
          /\ similitudes["q1"][u] > umbral
          /\ similitudes["q2"][u] > umbral
    /\ resultado["q1"] # resultado["q2"]
    /\ Head(Lineas(resultado["q1"])) = Head(Lineas(resultado["q2"]))

(***************************************************************************)
(* Properties of aplanar_conocimiento.                                     *)
(***************************************************************************)
Aplanado == ultima_ejecucion = "aplanar" /\ base_de_conocimiento # None

\* the subject records of the material_academico section: <<year, name, data>>
Materias ==
    LET kb == Valor(base_de_conocimiento)
    IN IF ~Tiene(kb, "material_academico") THEN {}
       ELSE LET mat == Item(kb, "material_academico").v
            IN UNION {{<<mat[i][1], mat[i][2].v[j][1], mat[i][2].v[j][2]>> :
                          j \in DOMAIN mat[i][2].v} : i \in DOMAIN mat}

RegistrosDeMateria == {m \in Materias : EsDict(m[3])}

Campo(d, k) == Item(d, k).v
ListaDe(d, k) == IF Tiene(d, k) THEN Item(d, k).v ELSE <<>>

\* the units whose text opens with the heading of subject m
UnidadesDe(m) ==
    {i \in DOMAIN documentos_planos :
        LET cab == <<"Materia:", " ", title(sin_guion(m[2])), " ", "de", " ",
                     sin_guion(m[1]), ".">>
        IN Len(documentos_planos[i]) >= Len(cab)
           /\ Trozo(documentos_planos[i], 1, Len(cab)) = cab}

ContieneBasico(doc, d) ==
    /\ Tiene(d, "content") => Contiene(doc, Campo(d, "content"))
    /\ Contiene(doc, <<"Profesor/a:", " ">>
                      \o (IF Tiene(d, "profesor") THEN Campo(d, "profesor")
                          ELSE <<"No asignado">>))

ContieneEvaluacion(texto, e) ==
    /\ Tiene(e, "fecha") => Contiene(texto, Campo(e, "fecha"))
    /\ Tiene(e, "temas") => Contiene(texto, Campo(e, "temas"))

ContieneApunte(texto, a) ==
    /\ Contiene(texto, Campo(a, "nombre"))
    /\ Contiene(texto, Campo(a, "link"))

\* every evaluation and every note has a line of its own that renders it
CadaUnoEnSuLinea(doc, d) ==
    LET evs == ListaDe(d, "evaluaciones")
        aps == ListaDe(d, "apuntes")
        ls == Lineas(doc)
        n == Len(evs) + Len(aps)
    IN \E f \in [1..n -> DOMAIN ls] :
          /\ \A a, b \in 1..n : a # b => f[a] # f[b]
          /\ \A k \in 1..Len(evs) : ContieneEvaluacion(ls[f[k]], evs[k])
          /\ \A k \in 1..Len(aps) : ContieneApunte(ls[f[Len(evs) + k]], aps[k])

EvaluacionEsperada(e) ==
    <<"Fecha:", " ">> \o (IF Tiene(e, "fecha") THEN Campo(e, "fecha") ELSE <<"N/A">>)
    \o <<",", " ", "Temas:", " ">>
    \o (IF Tiene(e, "temas") THEN Campo(e, "temas") ELSE <<"N/A">>)

Ultimo(sec) == sec[Len(sec)]
SinUltimo(sec) == Trozo(sec, 1, Len(sec) - 1)

Apariciones(sec, x) == Cardinality({i \in DOMAIN sec : sec[i] = x})

NoSistema(msgs) == {i \in DOMAIN msgs : msgs[i].role # "system"}

\* a chat turn has just handed historial_para_api to the model
TurnoRespondido == ultima_ejecucion = "turno"

\* C3: the list handed to the model is one system message, first, holding
\* exactly one "CONTEXTO RELEVANTE:" block (the retrieved context after the
\* fixed instructions), followed by the most recent 10 non-system messages of
\* the transcript (all when fewer) in their order, the last being the user
\* prompt of the turn.
C3_PromptIsSystemPlusLastTen ==
    TurnoRespondido =>
        LET h == historial_para_api
            previos == SinUltimo(mensajes)
            cola == Tail(h)
        IN /\ h[1].role = "system"
           /\ \A i \in DOMAIN cola : cola[i].role # "system"
           /\ Apariciones(h[1].content, ENCABEZADO_CONTEXTO) = 1
           /\ h[1].content = SYSTEM_PROMPT \o <<NL, NL, ENCABEZADO_CONTEXTO, NL>> \o contexto_rag
           /\ NoSistema(previos) = DOMAIN previos
           /\ Len(cola) = Min(HISTORIAL_MAX, Len(previos))
           /\ \A i \in DOMAIN cola : cola[i] = previos[Len(previos) - Len(cola) + i]
           /\ Ultimo(h) = [role |-> "user", content |-> traza.prompt]

\* a turn whose transcript was longer than the window, after an earlier turn
\* that left its user message unanswered
C3_Witness ==
    /\ TurnoRespondido
    /\ Len(SinUltimo(mensajes)) > HISTORIAL_MAX
    /\ Len(historial_para_api) = HISTORIAL_MAX + 1
    /\ \E i \in 1..(Len(mensajes) - 1) :
          mensajes[i].role = "user" /\ mensajes[i + 1].role = "user"
    /\ \E i, j \in DOMAIN mensajes :
          /\ mensajes[i].role = "user" /\ mensajes[j].role = "user"
          /\ mensajes[i].content # mensajes[j].content

FalloDeInicio ==
    \/ archivo.estado # "ok"
    \/ ~modelo_disponible
    \/ aplanar_conocimiento(cargar_base_de_conocimiento(archivo)) = <<>>

\* C4: when the knowledge document cannot be loaded or the index cannot be
\* built, the load reports the loader's error, the index is None, and every
\* main run reports the engine error and stops: no transcript is started, no
\* context retrieved and no prompt built.
C4_FailedInitNeverChats ==
    (app_ready /\ FalloDeInicio) =>
        /\ indice_embeddings = None
        /\ ultima_ejecucion \in {"carga", "detenida"}
        /\ mensajes = <<>>
        /\ contexto_rag = <<>>
        /\ historial_para_api = <<>>
        /\ ~traza.hubo
        /\ ultima_ejecucion = "detenida" => errores = {ERROR_MOTOR}
        /\ ultima_ejecucion = "carga" =>
              /\ archivo.estado = "no_encontrado" => ERROR_NO_ENCONTRADO \in errores
              /\ archivo.estado = "json_invalido" => ERROR_JSON \in errores
              /\ ~modelo_disponible => ERROR_MODELO \in errores

\* the document was missing, the load finished and the main run stopped on
\* the engine error
C4_Witness ==
    /\ app_ready
    /\ archivo.estado = "no_encontrado"
    /\ base_de_conocimiento = None
    /\ ultima_ejecucion = "detenida"
    /\ ERROR_MOTOR \in errores

\* C5 as stated: a chat turn whose query embedding fails still uses an
\* explicit "context unavailable" string as its context, builds the prompt and
\* appends an assistant message.
C5_EncodeFailureDegrades ==
    (traza.hubo /\ traza.falla_encode) =>
        /\ contexto_rag = MSG_NO_LISTA
        /\ historial_para_api # <<>>
        /\ Ultimo(mensajes).role = "assistant"

\* C9: the loading branch completes once, while app_ready is false; once
\* app_ready is true it stays true and no run changes the knowledge document,
\* the flattened documents, the embedding model or the index; a chat turn
\* changes, of the session state, only the transcript.
C9_ResourcesBuiltOnceThenFrozen ==
    /\ [](cargas <= 1 /\ (app_ready <=> cargas = 1) /\ (mensajes # <<>> => app_ready))
    /\ [][/\ app_ready => (app_ready' /\ UNCHANGED recursos /\ UNCHANGED cargas)
          /\ mensajes' # mensajes => (UNCHANGED recursos /\ UNCHANGED app_ready)
          /\ base_de_conocimiento # None => UNCHANGED base_de_conocimiento
          /\ documentos_planos # <<>> => UNCHANGED documentos_planos
          /\ modelo_embeddings # None => UNCHANGED modelo_embeddings
          /\ indice_embeddings # None => UNCHANGED indice_embeddings]_vars

\* several turns have been answered on the resources built by the one load
C9_Witness ==
    /\ app_ready
    /\ cargas = 1
    /\ indice_embeddings # None
    /\ TurnoRespondido
    /\ Turnos >= 3

\* C10 as stated: every chat turn stores as the assistant answer the fragments
\* of the stream concatenated in arrival order (those received before a
\* failure, possibly none), in exactly one assistant message right after the
\* user message, so that no user message stays unanswered.
C10_EveryTurnStoresStreamedAnswer ==
    /\ traza.hubo =>
          /\ Len(mensajes) >= 2
          /\ Ultimo(mensajes) =
                [role |-> "assistant",
                 content |-> Concat([i \in DOMAIN traza.chunks |->
                                        IF traza.chunks[i] = None THEN <<>>
                                        ELSE Valor(traza.chunks[i])])]
          /\ SinUltimo(mensajes)[Len(mensajes) - 1] =
                [role |-> "user", content |-> traza.prompt]
    /\ \A i \in 1..(Len(mensajes) - 1) :
          mensajes[i].role = "user" => mensajes[i + 1].role = "assistant"

\* The part of C10 that the stream handling alone decides: a turn that reaches
\* the model stream stores the concatenation of the delivered fragments.
StreamedAnswerIsConcatenation ==
    TurnoRespondido =>
        /\ Ultimo(mensajes) =
              [role |-> "assistant",
               content |-> Concat([i \in DOMAIN traza.chunks |->
                                      IF traza.chunks[i] = None THEN <<>>
                                      ELSE Valor(traza.chunks[i])])]
        /\ SinUltimo(mensajes)[Len(mensajes) - 1] =
              [role |-> "user", content |-> traza.prompt]

====
